---- MODULE Spec2Model ----
(***************************************************************************)
(* A model of the consultation backend: the audio windowing buffer of      *)
(* transcription_service.py, the room registry of session_manager.py and   *)
(* the two websocket handlers of main.py.                                  *)
(*                                                                         *)
(* The specifications share the definitions that model the code:          *)
(*   SpecAudio    process_audio_chunk called with arbitrary frames         *)
(*   SpecManager  the synchronous SessionManager methods called in any     *)
(*                order with any arguments                                 *)
(*   SpecHistory  a caller that keeps the list get_history returned        *)
(*   Spec         the websocket handlers, one coroutine per connection,    *)
(*                interleaved at their await points                        *)
(*   SpecStall    the handlers, with a transcription call that hangs       *)
(*   SpecSignal   the signaling handlers alone, with three roles           *)
(*   SpecOrder    the signaling handlers of one room, two numbered         *)
(*                messages                                                 *)
(*   SpecBacklog  the transcription handlers of one room, two audio        *)
(*                messages                                                 *)
(***************************************************************************)
EXTENDS Integers, Sequences, FiniteSets, TLC

\* ------------------------------------------------------------------------
\* Bounds of the model and constants of the program
\* ------------------------------------------------------------------------

\* transcription_service.py:14 sets 16000; the model scales the rate down so
\* that a window is a few samples long.
SAMPLE_RATE == 2
BUFFER_SECONDS == 2

\* The most samples pushed for one (room, speaker) key under SpecAudio.
MaxSamples == 10

\* The most entries of one room's history.
MaxHistory == 2

\* The connections the server accepts, and the inbound messages their
\* message loops handle in all.
NumConns == 3
MaxInbound == 1
\* The signaling messages the clients send in all where their order matters.
MaxSignals == 2
\* The audio messages the clients send in all where a backlog is carried
\* from one message to the next.
MaxAudio == 2

\* The window length W of process_audio_chunk.
WindowLen == SAMPLE_RATE * BUFFER_SECONDS

\* Room identifiers and role labels are free-form strings in the code.  The
\* empty string is a room identifier a client can send, and the only one
\* that Python treats as false.
RoomIds == {"R1", ""}
Speakers == {"Doctor", "Patient"}
\* The rooms and roles the signaling clients name (ws_signal takes room and
\* speaker from the query string).
SignalRooms == {"R1", "R2"}
SignalSpeakers == {"Doctor", "Patient", "Nurse"}

\* Python's None, and the truth value of a string or None.
NoneVal == "<None>"
Truthy(x) == x \notin {NoneVal, ""}

\* ------------------------------------------------------------------------
\* transcription_service.py
\* ------------------------------------------------------------------------

\* samples.astype(np.float32) / 32768.0 : an int16 sample v becomes the
\* float v/32768, kept here as the exact fraction.
Normalize(v) == [num |-> v, den |-> 32768]

\* base64.b64decode + np.frombuffer(dtype=int16) + the normalisation.  A
\* payload is [ok, raw]: ok is FALSE when the decoding raises (invalid
\* base64, or a byte count that is no multiple of two).
DecodeSamples(base64_data) ==
    [i \in 1..Len(base64_data.raw) |-> Normalize(base64_data.raw[i])]

\* self.buffers[key] after the lazy creation and the concatenation.
Concatenated(bufs, key, samples) ==
    (IF key \in DOMAIN bufs THEN bufs[key] ELSE <<>>) \o samples

\* Mutation of process_audio_chunk: the backlog keeps the last sample of the
\* window it has just emitted.
process_audio_chunk_overlap(bufs, room_id, speaker_id, base64_data) ==
    LET key == <<room_id, speaker_id>>
        buf == Concatenated(bufs, key, DecodeSamples(base64_data))
        set(b) == [k \in DOMAIN bufs \cup {key} |-> IF k = key THEN b ELSE bufs[k]]
    IN  IF Len(buf) >= WindowLen
        THEN [buffers |-> set(SubSeq(buf, WindowLen, Len(buf))),
              isNone |-> FALSE, chunk |-> SubSeq(buf, 1, WindowLen)]
        ELSE [buffers |-> set(buf), isNone |-> TRUE, chunk |-> <<>>]

\* TranscriptionService.process_audio_chunk for a payload that decodes: the
\* new value of self.buffers and the returned chunk (isNone: None returned).
process_audio_chunk(bufs, room_id, speaker_id, base64_data) ==
    LET key == <<room_id, speaker_id>>
        buf == Concatenated(bufs, key, DecodeSamples(base64_data))
        set(b) == [k \in DOMAIN bufs \cup {key} |-> IF k = key THEN b ELSE bufs[k]]
    IN  IF Len(buf) >= WindowLen
        THEN [buffers |-> set(SubSeq(buf, WindowLen + 1, Len(buf))),
              isNone |-> FALSE, chunk |-> SubSeq(buf, 1, WindowLen)]
        ELSE [buffers |-> set(buf), isNone |-> TRUE, chunk |-> <<>>]

\* ------------------------------------------------------------------------
\* session_manager.py
\* ------------------------------------------------------------------------

\* A Python dict is the sequence of its items in insertion order, each item
\* [k |-> key, v |-> value].
DictHas(d, k) == \E i \in 1..Len(d) : d[i].k = k
DictGet(d, k) == d[CHOOSE i \in 1..Len(d) : d[i].k = k].v
DictKeys(d) == {d[i].k : i \in 1..Len(d)}
DictValues(d) == {d[i].v : i \in 1..Len(d)}
\* d[k] = v : a present key keeps its place, a new key goes last.
DictSet(d, k, v) ==
    IF DictHas(d, k)
    THEN [i \in 1..Len(d) |-> IF d[i].k = k THEN [k |-> k, v |-> v] ELSE d[i]]
    ELSE Append(d, [k |-> k, v |-> v])
\* del d[k]
DictDel(d, k) == SelectSeq(d, LAMBDA e : e.k # k)

\* The room _ensure_room_exists creates.
NewRoom ==
    [signal_sockets |-> <<>>, transcribe_sockets |-> <<>>,
     history |-> <<>>, checklist_step |-> "Introduction"]

\* rs without the entry of room_id: del self.rooms[room_id].
WithoutRoom(rs, room_id) == [r \in DOMAIN rs \ {room_id} |-> rs[r]]

\* Mutation of _ensure_room_exists: the room is created without looking
\* whether it is there (what the second of two racing creators does).
ensure_room_exists_unchecked(rs, room_id) ==
    [r \in DOMAIN rs \cup {room_id} |-> IF r = room_id THEN NewRoom ELSE rs[r]]

\* SessionManager._ensure_room_exists
ensure_room_exists(rs, room_id) ==
    IF room_id \notin DOMAIN rs
    THEN [r \in DOMAIN rs \cup {room_id} |-> IF r = room_id THEN NewRoom ELSE rs[r]]
    ELSE rs

\* Mutation of _cleanup_room_if_empty: only the signaling map is looked at.
cleanup_room_if_empty_signal_only(rs, room_id) ==
    IF room_id \in DOMAIN rs
    THEN IF rs[room_id].signal_sockets = <<>>
         THEN WithoutRoom(rs, room_id)
         ELSE rs
    ELSE rs

\* SessionManager._cleanup_room_if_empty
cleanup_room_if_empty(rs, room_id) ==
    IF room_id \in DOMAIN rs
    THEN IF rs[room_id].signal_sockets = <<>> /\ rs[room_id].transcribe_sockets = <<>>
         THEN WithoutRoom(rs, room_id)
         ELSE rs
    ELSE rs

\* SessionManager.add_signal_socket
add_signal_socket(rs, room_id, speaker_id, ws) ==
    LET r1 == ensure_room_exists(rs, room_id)
    IN  [r1 EXCEPT ![room_id].signal_sockets = DictSet(@, speaker_id, ws)]

\* SessionManager.remove_signal_socket
remove_signal_socket(rs, room_id, speaker_id) ==
    IF room_id \in DOMAIN rs
    THEN LET r1 == IF DictHas(rs[room_id].signal_sockets, speaker_id)
                   THEN [rs EXCEPT ![room_id].signal_sockets = DictDel(@, speaker_id)]
                   ELSE rs
         IN  cleanup_room_if_empty(r1, room_id)
    ELSE rs

\* SessionManager.add_transcribe_socket
add_transcribe_socket(rs, room_id, speaker_id, ws) ==
    LET r1 == ensure_room_exists(rs, room_id)
    IN  [r1 EXCEPT ![room_id].transcribe_sockets = DictSet(@, speaker_id, ws)]

\* Mutation of remove_transcribe_socket: the history goes with the entry.
remove_transcribe_socket_drops_history(rs, room_id, speaker_id) ==
    IF room_id \in DOMAIN rs
    THEN LET r1 == IF DictHas(rs[room_id].transcribe_sockets, speaker_id)
                   THEN [rs EXCEPT ![room_id].transcribe_sockets = DictDel(@, speaker_id),
                                   ![room_id].history = <<>>]
                   ELSE rs
         IN  cleanup_room_if_empty(r1, room_id)
    ELSE rs

\* SessionManager.remove_transcribe_socket
remove_transcribe_socket(rs, room_id, speaker_id) ==
    IF room_id \in DOMAIN rs
    THEN LET r1 == IF DictHas(rs[room_id].transcribe_sockets, speaker_id)
                   THEN [rs EXCEPT ![room_id].transcribe_sockets = DictDel(@, speaker_id)]
                   ELSE rs
         IN  cleanup_room_if_empty(r1, room_id)
    ELSE rs

\* The dict add_to_history appends.
HistoryEntry(speaker_id, text, sentiment) ==
    [speaker |-> speaker_id, text |-> text, sentiment |-> sentiment]

\* Mutation of add_to_history: the entry is inserted at the front.
add_to_history_front(rs, room_id, speaker_id, text, sentiment) ==
    IF room_id \in DOMAIN rs
    THEN [rs EXCEPT ![room_id].history =
                        <<HistoryEntry(speaker_id, text, sentiment)>> \o @]
    ELSE rs

\* SessionManager.add_to_history
add_to_history(rs, room_id, speaker_id, text, sentiment) ==
    IF room_id \in DOMAIN rs
    THEN [rs EXCEPT ![room_id].history =
                        Append(@, HistoryEntry(speaker_id, text, sentiment))]
    ELSE rs

\* SessionManager.get_history
get_history(rs, room_id) ==
    IF room_id \in DOMAIN rs THEN rs[room_id].history ELSE <<>>

\* What get_history returns is a list object, not a value: for a room in
\* the registry the very list rooms[room_id]["history"] that add_to_history
\* appends to (kind "live"), for any other room id a new empty list (kind
\* "own").  seen is what the list held when it was returned.
get_history_list(rs, room_id) ==
    IF room_id \in DOMAIN rs
    THEN [kind |-> "live", room |-> room_id, list |-> <<>>, seen |-> rs[room_id].history]
    ELSE [kind |-> "own", room |-> NoneVal, list |-> <<>>, seen |-> <<>>]

\* What the list h holds when self.rooms is rs.
Contents(h, rs) == IF h.kind = "live" THEN rs[h.room].history ELSE h.list

\* The list h once self.rooms has gone from rs to rs2: `del self.rooms[r]`
\* drops the registry's reference, the caller keeps the list as it was.
Kept(h, rs, rs2) ==
    IF h.kind = "live" /\ h.room \notin DOMAIN rs2
    THEN [h EXCEPT !.kind = "own", !.room = NoneVal, !.list = rs[h.room].history]
    ELSE h

\* SessionManager.update_checklist_step
update_checklist_step(rs, room_id, step) ==
    IF room_id \in DOMAIN rs
    THEN [rs EXCEPT ![room_id].checklist_step = step]
    ELSE rs

\* SessionManager.get_checklist_step
get_checklist_step(rs, room_id) ==
    IF room_id \in DOMAIN rs THEN rs[room_id].checklist_step ELSE "Introduction"

\* The connection maps of a room, empty for a room that is not registered.
SignalSockets(rs, room_id) ==
    IF room_id \in DOMAIN rs THEN rs[room_id].signal_sockets ELSE <<>>
TranscribeSockets(rs, room_id) ==
    IF room_id \in DOMAIN rs THEN rs[room_id].transcribe_sockets ELSE <<>>

\* --- iteration over a connection map -------------------------------------
\*
\* relay_signal and broadcast_transcribe iterate over the live dict and
\* await a send inside the loop, so other handlers run, and may change the
\* dict, between two steps of the iteration.  An iterator is
\*   pos     how many items of the dict lie behind it,
\*   used    the size of the dict when the iteration began,
\*   orphan  the room, and with it the dict, was deleted meanwhile.
\* CPython raises RuntimeError on the next step when the size differs from
\* `used`; a deleted item leaves a dummy in its place, so the position of the
\* iterator among the remaining items does not change (Retarget).

NoIter == [pos |-> 0, used |-> 0, orphan |-> FALSE]
IterStart(d) == [pos |-> 0, used |-> Len(d), orphan |-> FALSE]

\* next(iterator): the item, StopIteration or RuntimeError.  The dict of a
\* deleted room is empty, and an iteration in progress began on a non-empty
\* one, so an orphan raises.
IterNext(d, i) ==
    IF i.orphan \/ Len(d) # i.used
    THEN [kind |-> "raise", item |-> [k |-> NoneVal, v |-> 0], it |-> i]
    ELSE IF i.pos >= Len(d)
    THEN [kind |-> "stop", item |-> [k |-> NoneVal, v |-> 0], it |-> i]
    ELSE [kind |-> "item", item |-> d[i.pos + 1], it |-> [i EXCEPT !.pos = @ + 1]]

\* The iterator i over dict d once the dict has become d2 (at most one item
\* was added, replaced or deleted): a deletion behind the iterator moves it
\* one place down in the sequence of the remaining items.
Retarget(i, d, d2) ==
    IF Len(d2) < Len(d)
    THEN LET j == CHOOSE n \in 1..Len(d) : ~DictHas(d2, d[n].k)
         IN  IF j <= i.pos THEN [i EXCEPT !.pos = @ - 1] ELSE i
    ELSE i

\* The outcome of the part of a relay or broadcast that runs until its next
\* suspension: st is "suspended" (inside a send), "returned" or "raised"
\* (with the exception exc); recv is every connection's received payloads and
\* log the items this call has sent to.
Outcome(st, exc, i, recv, log) ==
    [st |-> st, exc |-> exc, it |-> i, recv |-> recv, log |-> log]

\* await ws.send_text(data) on the connection of item e: it raises exc when
\* the peer is gone, and else the payload is delivered.
SendText(up, e, data, exc, i, recv, log) ==
    IF up[e.v]
    THEN Outcome("suspended", NoneVal, i,
                 [recv EXCEPT ![e.v] = Append(@, data)],
                 Append(log, [k |-> e.k, v |-> e.v, data |-> data]))
    ELSE Outcome("raised", exc, NoIter, recv, log)

\* The loop of SessionManager.relay_signal from one suspension to the next:
\* the next item, or the one after it when the next is the sender's.
relay_signal_loop(rs, up, room_id, sender_id, data, exc, i, recv, log) ==
    LET d == SignalSockets(rs, room_id)
        n1 == IterNext(d, i)
        n == IF n1.kind = "item" /\ n1.item.k = sender_id THEN IterNext(d, n1.it) ELSE n1
    IN  CASE n.kind = "raise" -> Outcome("raised", "RuntimeError", NoIter, recv, log)
          [] n.kind = "stop" -> Outcome("returned", NoneVal, NoIter, recv, log)
          [] OTHER -> SendText(up, n.item, data, exc, n.it, recv, log)

\* SessionManager.relay_signal up to its first suspension.
relay_signal(rs, up, room_id, sender_id, data, exc, recv) ==
    IF room_id \in DOMAIN rs
    THEN relay_signal_loop(rs, up, room_id, sender_id, data, exc,
                           IterStart(rs[room_id].signal_sockets), recv, <<>>)
    ELSE Outcome("returned", NoneVal, NoIter, recv, <<>>)

\* The loop of SessionManager.broadcast_transcribe from one suspension to the
\* next.
broadcast_transcribe_loop(rs, up, room_id, data, exc, i, recv, log) ==
    LET n == IterNext(TranscribeSockets(rs, room_id), i)
    IN  CASE n.kind = "raise" -> Outcome("raised", "RuntimeError", NoIter, recv, log)
          [] n.kind = "stop" -> Outcome("returned", NoneVal, NoIter, recv, log)
          [] OTHER -> SendText(up, n.item, data, exc, n.it, recv, log)

\* SessionManager.broadcast_transcribe up to its first suspension.
broadcast_transcribe(rs, up, room_id, data, exc, recv) ==
    IF room_id \in DOMAIN rs
    THEN broadcast_transcribe_loop(rs, up, room_id, data, exc,
                                   IterStart(rs[room_id].transcribe_sockets), recv, <<>>)
    ELSE Outcome("returned", NoneVal, NoIter, recv, <<>>)

\* ------------------------------------------------------------------------
\* transcription_service.py, sentiment_analyzer.py, question_engine.py: the
\* collaborators, as far as the handlers see them
\* ------------------------------------------------------------------------

\* The texts the Whisper model returns in the model of the program.
Texts == {"", "hello", "I have diabetes"}
\* SentimentAnalyzer.analyze returns a label, whatever happens inside; two of
\* its three labels are enough to tell them apart.
Labels == {"Negative", "Neutral"}

\* TranscriptionService.transcribe_chunk: "" for an empty chunk, else the
\* text of the model's segments.
transcribe_chunk(audio_chunk, model_text) ==
    IF Len(audio_chunk) = 0 THEN "" ELSE model_text

\* `keyword in last_patient_response` on the lowercased text, for the texts
\* of the model.
KeywordIn(keyword, text) ==
    keyword = "diabetes" /\ text = "I have diabetes"

\* QuestionEngine.acko_script_rules, its first two rules.
acko_script_rules ==
    << [keyword |-> "diabetes",
        questions |-> <<"When was it diagnosed?",
                        "What treatment was given - medical, surgical, or hospitalization?",
                        "Are any medications being taken? If yes, please specify names and dosages.">>],
       [keyword |-> "blood pressure",
        questions |-> <<"When was it diagnosed?",
                        "What are your typical blood pressure readings?",
                        "Are any medications being taken? If yes, please specify names and dosages.">>] >>

\* QuestionEngine.generate_question: the questions of the first rule whose
\* keyword the most recent patient entry contains.
generate_question(conversation_history, checklist_step) ==
    LET patient == {i \in 1..Len(conversation_history) :
                        conversation_history[i].speaker = "Patient"}
        last_patient_response ==
            IF patient = {} THEN ""
            ELSE conversation_history[CHOOSE i \in patient : \A j \in patient : j <= i].text
        hits == {n \in 1..Len(acko_script_rules) :
                     KeywordIn(acko_script_rules[n].keyword, last_patient_response)}
    IN  IF last_patient_response = "" \/ hits = {} THEN <<>>
        ELSE acko_script_rules[CHOOSE n \in hits : \A m \in hits : n <= m].questions

\* Mutation of the transcript event: the sentiment field is left out of it.
transcript_event_without_sentiment(speaker_id, full_text, sentiment) ==
    [type |-> "transcript", speaker |-> speaker_id, text |-> full_text,
     sentiment |-> NoneVal]

\* The events ws_transcribe broadcasts (json.dumps of these dicts).
transcript_event(speaker_id, full_text, sentiment) ==
    [type |-> "transcript", speaker |-> speaker_id, text |-> full_text,
     sentiment |-> sentiment]
question_event(questions) == [type |-> "question", questions |-> questions]

\* ------------------------------------------------------------------------
\* State
\* ------------------------------------------------------------------------

VARIABLES
    buffers,    \* TranscriptionService.buffers: (room, speaker) -> backlog
    pushed,     \* per key, every decoded sample handed to process_audio_chunk
    emitted,    \* per key, the chunks process_audio_chunk returned, in order
    rooms,      \* SessionManager.rooms: room id -> room
    op,         \* the SessionManager method called last (SpecManager)
    held,       \* the list a caller got from get_history, and what it held then
    pc,         \* per connection, where its handler is
    roomId,     \* per connection, the handler's room_id (None before the join)
    speakerId,  \* per connection, the handler's speaker_id
    alive,      \* per connection, whether its client is still there
    phase,      \* per connection, the relay or broadcast it is suspended in
    payload,    \* per connection, the payload of that relay or broadcast
    it,         \* per connection, the dict iterator of that relay or broadcast
    start,      \* per connection, the handles in the dict when that call began
    log,        \* per connection, the items that call has sent to so far
    received,   \* per connection, the payloads sent to it, in order
    nmsgs       \* inbound messages handled so far by the message loops

audioVars == <<buffers, pushed, emitted>>
managerVars == <<rooms, op>>
handlerVars ==
    <<pc, roomId, speakerId, alive, phase, payload, it, start, log, received, nmsgs>>
vars ==
    <<buffers, pushed, emitted, rooms, op, held,
      pc, roomId, speakerId, alive, phase, payload, it, start, log, received, nmsgs>>

Conns == 1..NumConns
NoData == [type |-> "none"]

AudioKeys == {<<"R1", "Doctor">>, <<"R1", "Patient">>}

\* Frames of every length up to more than two windows.
MaxFrameLen == 2 * WindowLen + 1

\* No list is held.
NoList == [kind |-> "none", room |-> NoneVal, list |-> <<>>, seen |-> <<>>]

NoOp ==
    [name |-> "none", room |-> NoneVal, speaker |-> NoneVal,
     text |-> NoneVal, sentiment |-> NoneVal]

Init ==
    /\ buffers = <<>>
    /\ pushed = [key \in AudioKeys |-> <<>>]
    /\ emitted = [key \in AudioKeys |-> <<>>]
    /\ rooms = <<>>
    /\ op = NoOp
    /\ held = NoList
    /\ pc = [c \in Conns |-> "new"]
    /\ roomId = [c \in Conns |-> NoneVal]
    /\ speakerId = [c \in Conns |-> NoneVal]
    /\ alive = [c \in Conns |-> FALSE]
    /\ phase = [c \in Conns |-> "none"]
    /\ payload = [c \in Conns |-> NoData]
    /\ it = [c \in Conns |-> NoIter]
    /\ start = [c \in Conns |-> {}]
    /\ log = [c \in Conns |-> <<>>]
    /\ received = [c \in Conns |-> <<>>]
    /\ nmsgs = 0

\* ------------------------------------------------------------------------
\* SpecAudio: calls of process_audio_chunk
\* ------------------------------------------------------------------------

\* The payload whose decoding gives the next n samples of a key's stream: the
\* i-th sample ever pushed for the key has the int16 value i.
Frame(key, n) ==
    [ok |-> TRUE, raw |-> [i \in 1..n |-> Len(pushed[key]) + i]]

\* One call transcriber.process_audio_chunk(room, speaker, data).
ProcessAudioChunk(key, n) ==
    LET data == Frame(key, n)
        res == process_audio_chunk(buffers, key[1], key[2], data)
    IN  /\ Len(pushed[key]) + n <= MaxSamples
        /\ buffers' = res.buffers
        /\ pushed' = [pushed EXCEPT ![key] = @ \o DecodeSamples(data)]
        /\ emitted' = [emitted EXCEPT
                          ![key] = IF res.isNone THEN @ ELSE Append(@, res.chunk)]
        /\ UNCHANGED <<managerVars, handlerVars, held>>

NextAudio == \E key \in AudioKeys, n \in 0..MaxFrameLen : ProcessAudioChunk(key, n)

SpecAudio == Init /\ [][NextAudio]_vars

\* ------------------------------------------------------------------------
\* SpecManager: the synchronous methods of SessionManager, called in any
\* order on one room id with any role and any connection handle
\* ------------------------------------------------------------------------

MgrRooms == {"R1"}
MgrSpeakers == {"Doctor", "Patient"}
MgrHandles == {1, 2}
MgrSteps == {"Introduction", "Medical History"}
\* The utterances add_to_history is called with: the sentiment is None for
\* the doctor and a label for the patient.
MgrUtterances ==
    {[speaker |-> "Doctor", text |-> "hello", sentiment |-> NoneVal],
     [speaker |-> "Patient", text |-> "hi", sentiment |-> "Neutral"]}

Called(name, room_id, speaker_id) ==
    [name |-> name, room |-> room_id, speaker |-> speaker_id,
     text |-> NoneVal, sentiment |-> NoneVal]

CallAddSignalSocket(room_id, speaker_id, ws) ==
    /\ rooms' = add_signal_socket(rooms, room_id, speaker_id, ws)
    /\ op' = Called("add_signal_socket", room_id, speaker_id)
    /\ held' = Kept(held, rooms, rooms')
    /\ UNCHANGED <<audioVars, handlerVars>>

CallRemoveSignalSocket(room_id, speaker_id) ==
    /\ rooms' = remove_signal_socket(rooms, room_id, speaker_id)
    /\ op' = Called("remove_signal_socket", room_id, speaker_id)
    /\ held' = Kept(held, rooms, rooms')
    /\ UNCHANGED <<audioVars, handlerVars>>

CallAddTranscribeSocket(room_id, speaker_id, ws) ==
    /\ rooms' = add_transcribe_socket(rooms, room_id, speaker_id, ws)
    /\ op' = Called("add_transcribe_socket", room_id, speaker_id)
    /\ held' = Kept(held, rooms, rooms')
    /\ UNCHANGED <<audioVars, handlerVars>>

CallRemoveTranscribeSocket(room_id, speaker_id) ==
    /\ rooms' = remove_transcribe_socket(rooms, room_id, speaker_id)
    /\ op' = Called("remove_transcribe_socket", room_id, speaker_id)
    /\ held' = Kept(held, rooms, rooms')
    /\ UNCHANGED <<audioVars, handlerVars>>

CallAddToHistory(room_id, u) ==
    /\ Len(get_history(rooms, room_id)) < MaxHistory
    /\ rooms' = add_to_history(rooms, room_id, u.speaker, u.text, u.sentiment)
    /\ op' = [name |-> "add_to_history", room |-> room_id, speaker |-> u.speaker,
              text |-> u.text, sentiment |-> u.sentiment]
    /\ held' = Kept(held, rooms, rooms')
    /\ UNCHANGED <<audioVars, handlerVars>>

CallUpdateChecklistStep(room_id, step) ==
    /\ rooms' = update_checklist_step(rooms, room_id, step)
    /\ op' = Called("update_checklist_step", room_id, NoneVal)
    /\ held' = Kept(held, rooms, rooms')
    /\ UNCHANGED <<audioVars, handlerVars>>

\* A caller takes the history of room_id and keeps it.
CallGetHistory(room_id) ==
    /\ held' = get_history_list(rooms, room_id)
    /\ op' = Called("get_history", room_id, NoneVal)
    /\ UNCHANGED <<rooms, audioVars, handlerVars>>

NextManager ==
    \E room_id \in MgrRooms :
        \/ \E speaker_id \in MgrSpeakers, ws \in MgrHandles :
               CallAddSignalSocket(room_id, speaker_id, ws)
        \/ \E speaker_id \in MgrSpeakers : CallRemoveSignalSocket(room_id, speaker_id)
        \/ \E speaker_id \in MgrSpeakers, ws \in MgrHandles :
               CallAddTranscribeSocket(room_id, speaker_id, ws)
        \/ \E speaker_id \in MgrSpeakers : CallRemoveTranscribeSocket(room_id, speaker_id)
        \/ \E u \in MgrUtterances : CallAddToHistory(room_id, u)
        \/ \E step \in MgrSteps : CallUpdateChecklistStep(room_id, step)

SpecManager == Init /\ [][NextManager]_vars

\* SpecHistory: a caller that keeps the list get_history gave it, while the
\* room is created, written to and reaped.
NextHistory ==
    \E room_id \in MgrRooms :
        \/ \E speaker_id \in MgrSpeakers, ws \in MgrHandles :
               CallAddTranscribeSocket(room_id, speaker_id, ws)
        \/ \E speaker_id \in MgrSpeakers : CallRemoveTranscribeSocket(room_id, speaker_id)
        \/ \E u \in MgrUtterances : CallAddToHistory(room_id, u)
        \/ CallGetHistory(room_id)

SpecHistory == Init /\ [][NextHistory]_vars

\* ------------------------------------------------------------------------
\* Spec: the websocket handlers of main.py, one coroutine per connection.
\* An action is the code a handler runs from one await that suspends it to
\* the next: the event loop runs nothing else in between.  A send writes and
\* then suspends, so a handler inside relay_signal or broadcast_transcribe
\* rests at "s_send" / "t_send" with its iterator just past the item sent.
\* ------------------------------------------------------------------------

\* How a handler has ended: "rejected" before it had joined, "closed" through
\* an except clause, "crashed" with an exception nobody caught.
Ended == {"closed", "rejected", "crashed"}
\* What a send to a vanished peer raises depends on the server library.
SendErrors == {"WebSocketDisconnect", "Exception"}
SignalBodies == {"offer"}
Steps == {"Medical History"}
\* The lengths of the audio frames the clients send: half a window, or one.
FrameLens == {SAMPLE_RATE, WindowLen}

\* The server numbers its connections in the order it accepts them.
CanOpen(c) == pc[c] = "new" /\ \A c2 \in Conns : c2 < c => pc[c2] # "new"

\* The dict that the suspended call of connection c iterates.
Slot(rs, c) ==
    IF phase[c] = "signal" THEN SignalSockets(rs, roomId[c])
    ELSE TranscribeSockets(rs, roomId[c])

\* The iterators of the suspended calls once self.rooms has gone from rs to
\* rs2.
Iterators(rs, rs2) ==
    [c \in Conns |->
        IF phase[c] = "none" THEN it[c]
        ELSE IF roomId[c] \notin DOMAIN rs2 THEN [it[c] EXCEPT !.orphan = TRUE]
        ELSE IF it[c].orphan THEN it[c]
        ELSE Retarget(it[c], Slot(rs, c), Slot(rs2, c))]

\* All handlers are coroutines of one event loop.  transcribe_chunk and
\* analyze are plain functions called without an executor, and
\* generate_question is a coroutine that never awaits: a handler inside one
\* of them ("t_call") holds the thread of the loop until the call returns.
LoopFree == \A d \in Conns : pc[d] # "t_call"

\* Handler c moves to newpc with the locals room and speaker; rs2 is
\* self.rooms, (ph, pl, i, st0, lg) the call it is suspended in, recv what
\* every connection has received.  A handler that has ended has no locals
\* left, and nothing is delivered to its connection any more.
Step(c, newpc, room, speaker, rs2, ph, pl, i, st0, lg, recv, n) ==
    /\ LoopFree
    /\ pc' = [pc EXCEPT ![c] = newpc]
    /\ roomId' = [roomId EXCEPT ![c] = IF newpc \in Ended THEN NoneVal ELSE room]
    /\ speakerId' = [speakerId EXCEPT ![c] = IF newpc \in Ended THEN NoneVal ELSE speaker]
    /\ rooms' = rs2
    /\ phase' = [phase EXCEPT ![c] = ph]
    /\ payload' = [payload EXCEPT ![c] = pl]
    /\ it' = [Iterators(rooms, rs2) EXCEPT ![c] = i]
    /\ start' = [start EXCEPT ![c] = st0]
    /\ log' = [log EXCEPT ![c] = lg]
    /\ received' = IF newpc \in Ended THEN [recv EXCEPT ![c] = <<>>] ELSE recv
    /\ nmsgs' = n
    /\ alive' = [alive EXCEPT ![c] = IF newpc \in Ended THEN FALSE
                                     ELSE IF pc[c] = "new" THEN TRUE ELSE @]
    /\ UNCHANGED <<pushed, emitted, op, held>>

\* Handler c moves to newpc and is inside no relay or broadcast.
Idle(c, newpc, rs2, recv, n) ==
    Step(c, newpc, roomId[c], speakerId[c], rs2, "none", NoData, NoIter, {}, <<>>, recv, n)

\* Handler c has registered as (room, speaker) and waits for a message.
Enter(c, newpc, room, speaker, rs2) ==
    Step(c, newpc, room, speaker, rs2, "none", NoData, NoIter, {}, <<>>, received, nmsgs)

\* --- ws_signal -----------------------------------------------------------

\* ws_signal after an exception: only WebSocketDisconnect is caught, and the
\* except clause removes the handler's own entry; anything else leaves the
\* coroutine with nothing removed.
SigRaise(c, exc, recv, n) ==
    IF exc = "WebSocketDisconnect"
    THEN Idle(c, "closed", remove_signal_socket(rooms, roomId[c], speakerId[c]), recv, n)
    ELSE Idle(c, "crashed", rooms, recv, n)

\* ws_signal after the part o of relay_signal.
SigSettle(c, o, pl, st0, n) ==
    CASE o.st = "suspended" ->
             Step(c, "s_send", roomId[c], speakerId[c], rooms, "signal", pl, o.it, st0,
                  o.log, o.recv, n)
      [] o.st = "returned" -> Idle(c, "s_recv", rooms, o.recv, n)
      [] OTHER -> SigRaise(c, o.exc, o.recv, n)

\* ws.accept() and add_signal_socket(room, speaker, ws).
SigOpen(c, room, speaker) ==
    /\ CanOpen(c)
    /\ Enter(c, "s_recv", room, speaker, add_signal_socket(rooms, room, speaker, c))
    /\ UNCHANGED buffers

\* receive_text() returns a message, and relay_signal runs to its first send;
\* the clients send no more than max messages between them.
SigRecvUpTo(c, body, exc, max) ==
    LET pl == [type |-> "signal", text |-> body]
        o == relay_signal(rooms, alive, roomId[c], speakerId[c], pl, exc, received)
    IN  /\ pc[c] = "s_recv" /\ alive[c] /\ nmsgs < max
        /\ SigSettle(c, o, pl, DictValues(SignalSockets(rooms, roomId[c])), nmsgs + 1)
        /\ UNCHANGED buffers

SigRecv(c, body, exc) == SigRecvUpTo(c, body, exc, MaxInbound)

\* receive_text() raises: WebSocketDisconnect when the client has gone,
\* KeyError when it sent a binary frame.
SigRecvFail(c, exc) ==
    /\ pc[c] = "s_recv"
    /\ \/ ~alive[c] /\ exc = "WebSocketDisconnect"
       \/ alive[c] /\ exc = "Exception"
    /\ SigRaise(c, exc, received, nmsgs)
    /\ UNCHANGED buffers

\* The send returns and the loop of relay_signal goes on.
SigResume(c, exc) ==
    LET o == relay_signal_loop(rooms, alive, roomId[c], speakerId[c], payload[c],
                               exc, it[c], received, log[c])
    IN  /\ pc[c] = "s_send"
        /\ SigSettle(c, o, payload[c], start[c], nmsgs)
        /\ UNCHANGED buffers

\* --- ws_transcribe -------------------------------------------------------

\* Both except clauses of ws_transcribe: `if room_id and speaker_id` guards
\* the removal of the handler's own entry.
ws_transcribe_except(rs, room, speaker) ==
    IF Truthy(room) /\ Truthy(speaker)
    THEN remove_transcribe_socket(rs, room, speaker)
    ELSE rs

TRaise(c, rs, recv, n) ==
    Idle(c, "closed", ws_transcribe_except(rs, roomId[c], speakerId[c]), recv, n)

\* ws_transcribe after the part o of the broadcast of the question event.
TSettleQuestion(c, rs, o, pl, st0, n) ==
    CASE o.st = "suspended" ->
             Step(c, "t_send", roomId[c], speakerId[c], rs, "question", pl, o.it, st0,
                  o.log, o.recv, n)
      [] o.st = "returned" -> Idle(c, "t_recv", rs, o.recv, n)
      [] OTHER -> TRaise(c, rs, o.recv, n)

\* ws_transcribe after the part o of the broadcast of the transcript event:
\* when that broadcast has returned, step 6 asks for questions (patient only)
\* and broadcasts them if there are any.
TSettleTranscript(c, rs, o, pl, st0, n, exc) ==
    CASE o.st = "suspended" ->
             Step(c, "t_send", roomId[c], speakerId[c], rs, "transcript", pl, o.it, st0,
                  o.log, o.recv, n)
      [] o.st = "returned" ->
             LET questions ==
                     IF speakerId[c] = "Patient"
                     THEN generate_question(get_history(rs, roomId[c]),
                                            get_checklist_step(rs, roomId[c]))
                     ELSE <<>>
                 ev == question_event(questions)
             IN  IF questions # <<>>
                 THEN TSettleQuestion(c, rs,
                          broadcast_transcribe(rs, alive, roomId[c], ev, exc, o.recv),
                          ev, DictValues(TranscribeSockets(rs, roomId[c])), n)
                 ELSE Idle(c, "t_recv", rs, o.recv, n)
      [] OTHER -> TRaise(c, rs, o.recv, n)

\* ws.accept()
TOpen(c) ==
    /\ CanOpen(c)
    /\ Idle(c, "t_join", rooms, received, nmsgs)
    /\ UNCHANGED buffers

\* The first message is a join with room and speaker.
TJoin(c, room, speaker) ==
    /\ pc[c] = "t_join" /\ alive[c]
    /\ Enter(c, "t_recv", room, speaker, add_transcribe_socket(rooms, room, speaker, c))
    /\ UNCHANGED buffers

\* Mutation of the join handling: the connection is registered, with what
\* .get("room") and .get("speaker") give, before the type is looked at.
TNoJoin_registers(c) ==
    /\ pc[c] = "t_join" /\ alive[c]
    /\ Idle(c, "rejected", add_transcribe_socket(rooms, NoneVal, NoneVal, c),
            received, nmsgs)
    /\ UNCHANGED buffers

\* The first message is well-formed but no join (ws.close() and return), or
\* it is no JSON or a join without "room" (an exception with room_id None).
TNoJoin(c) ==
    /\ pc[c] = "t_join" /\ alive[c]
    /\ Idle(c, "rejected", ws_transcribe_except(rooms, roomId[c], speakerId[c]),
            received, nmsgs)
    /\ UNCHANGED buffers

\* The first message is a join with "room" and without "speaker": room_id is
\* assigned, join_msg["speaker"] raises KeyError.
TJoinNoSpeaker(c, room) ==
    /\ pc[c] = "t_join" /\ alive[c]
    /\ Idle(c, "rejected", ws_transcribe_except(rooms, room, speakerId[c]),
            received, nmsgs)
    /\ UNCHANGED buffers

\* The client goes before it has joined: receive_text() raises.
TJoinFail(c) ==
    /\ pc[c] = "t_join" /\ ~alive[c]
    /\ Idle(c, "rejected", ws_transcribe_except(rooms, roomId[c], speakerId[c]),
            received, nmsgs)
    /\ UNCHANGED buffers

\* msg["data"] of an audio message of connection c with n samples.
AudioFrame(c, n) == [ok |-> TRUE, raw |-> [i \in 1..n |-> c]]

\* An audio message of n samples: steps 1 to 6 of the pipeline up to the
\* first send.  model_text is what Whisper makes of a chunk and label what
\* the sentiment model makes of the text; the clients send no more than max
\* messages between them.
TAudioUpTo(c, n, model_text, label, exc, max) ==
    LET frame == AudioFrame(c, n)
        res == process_audio_chunk(buffers, roomId[c], speakerId[c], frame)
        full_text == IF res.isNone THEN "" ELSE transcribe_chunk(res.chunk, model_text)
        sentiment == IF speakerId[c] = "Patient" THEN label ELSE NoneVal
        rs1 == add_to_history(rooms, roomId[c], speakerId[c], full_text, sentiment)
        ev == transcript_event(speakerId[c], full_text, sentiment)
    IN  /\ pc[c] = "t_recv" /\ alive[c] /\ nmsgs < max
        /\ res.isNone => model_text = ""
        /\ (full_text = "" \/ speakerId[c] # "Patient") => label = "Neutral"
        /\ buffers' = res.buffers
        /\ IF full_text # ""
           THEN TSettleTranscript(c, rs1,
                    broadcast_transcribe(rs1, alive, roomId[c], ev, exc, received),
                    ev, DictValues(TranscribeSockets(rs1, roomId[c])), nmsgs + 1, exc)
           ELSE Idle(c, "t_recv", rooms, received, nmsgs + 1)

TAudio(c, n, model_text, label, exc) ==
    TAudioUpTo(c, n, model_text, label, exc, MaxInbound)

\* An audio message of n samples that completes a window on which
\* transcribe_chunk raises (sf.write or the Whisper model fails): nothing in
\* transcribe_chunk or in the loop catches it, so it reaches the
\* `except Exception` clause of ws_transcribe.  The window has left the
\* buffer by then.
TAudioRaises(c, n) ==
    LET frame == AudioFrame(c, n)
        res == process_audio_chunk(buffers, roomId[c], speakerId[c], frame)
    IN  /\ pc[c] = "t_recv" /\ alive[c] /\ nmsgs < MaxInbound
        /\ ~res.isNone
        /\ buffers' = res.buffers
        /\ TRaise(c, rooms, received, nmsgs + 1)

\* An audio message of n samples that completes a window on which
\* transcribe_chunk does not return: the message is never handled to its end.
TAudioStalls(c, n) ==
    LET frame == AudioFrame(c, n)
        res == process_audio_chunk(buffers, roomId[c], speakerId[c], frame)
    IN  /\ pc[c] = "t_recv" /\ alive[c] /\ nmsgs < MaxInbound
        /\ ~res.isNone
        /\ buffers' = res.buffers
        /\ Idle(c, "t_call", rooms, received, nmsgs)

\* An update_checklist message.
TUpdateChecklist(c, step) ==
    /\ pc[c] = "t_recv" /\ alive[c] /\ nmsgs < MaxInbound
    /\ Idle(c, "t_recv", update_checklist_step(rooms, roomId[c], step), received, nmsgs + 1)
    /\ UNCHANGED buffers

\* Mutation of the message loop: a message of an unknown type is an error.
TOther_raises(c) ==
    /\ pc[c] = "t_recv" /\ alive[c] /\ nmsgs < MaxInbound
    /\ TRaise(c, rooms, received, nmsgs + 1)
    /\ UNCHANGED buffers

\* A well-formed message of any other type.
TOther(c) ==
    /\ pc[c] = "t_recv" /\ alive[c] /\ nmsgs < MaxInbound
    /\ Idle(c, "t_recv", rooms, received, nmsgs + 1)
    /\ UNCHANGED buffers

\* receive_text() raises (the client has gone, or sent a binary frame), or
\* the message is no JSON, or an audio message without "data" or with data
\* that does not decode.
TRecvFail(c) ==
    /\ pc[c] = "t_recv"
    /\ TRaise(c, rooms, received, nmsgs)
    /\ UNCHANGED buffers

\* The send returns and the loop of broadcast_transcribe goes on.
TResume(c, exc) ==
    LET o == broadcast_transcribe_loop(rooms, alive, roomId[c], payload[c], exc,
                                       it[c], received, log[c])
    IN  /\ pc[c] = "t_send"
        /\ IF phase[c] = "transcript"
           THEN TSettleTranscript(c, rooms, o, payload[c], start[c], nmsgs, exc)
           ELSE TSettleQuestion(c, rooms, o, payload[c], start[c], nmsgs)
        /\ UNCHANGED buffers

\* The client of connection c goes away (it closes, or the transport fails).
ClientDrop(c) ==
    /\ pc[c] \notin {"new"} \cup Ended
    /\ alive[c]
    /\ alive' = [alive EXCEPT ![c] = FALSE]
    /\ UNCHANGED <<audioVars, managerVars, held, pc, roomId, speakerId, phase, payload,
                   it, start, log, received, nmsgs>>

Next ==
    \E c \in Conns :
        \/ \E room \in SignalRooms, speaker \in Speakers : SigOpen(c, room, speaker)
        \/ \E body \in SignalBodies, exc \in SendErrors : SigRecv(c, body, exc)
        \/ \E exc \in SendErrors : SigRecvFail(c, exc)
        \/ \E exc \in SendErrors : SigResume(c, exc)
        \/ TOpen(c)
        \/ \E room \in RoomIds, speaker \in Speakers : TJoin(c, room, speaker)
        \/ TNoJoin(c)
        \/ \E room \in RoomIds : TJoinNoSpeaker(c, room)
        \/ TJoinFail(c)
        \/ \E n \in FrameLens, model_text \in Texts, label \in Labels, exc \in SendErrors :
               TAudio(c, n, model_text, label, exc)
        \/ \E n \in FrameLens : TAudioRaises(c, n)
        \/ \E step \in Steps : TUpdateChecklist(c, step)
        \/ TOther(c)
        \/ TRecvFail(c)
        \/ \E exc \in SendErrors : TResume(c, exc)
        \/ ClientDrop(c)

Spec == Init /\ [][Next]_vars

\* SpecStall: the handlers, with a speech model that may hang.
NextStall ==
    \/ Next
    \/ \E c \in Conns, n \in FrameLens : TAudioStalls(c, n)

SpecStall == Init /\ [][NextStall]_vars

\* SpecSignal: the signaling handlers alone, with a third role in the rooms.
NextSignal ==
    \E c \in Conns :
        \/ \E room \in SignalRooms, speaker \in SignalSpeakers : SigOpen(c, room, speaker)
        \/ \E body \in SignalBodies, exc \in SendErrors : SigRecv(c, body, exc)
        \/ \E exc \in SendErrors : SigRecvFail(c, exc)
        \/ \E exc \in SendErrors : SigResume(c, exc)
        \/ ClientDrop(c)

SpecSignal == Init /\ [][NextSignal]_vars

\* SpecOrder: the signaling handlers of one room, whose clients send up to
\* MaxSignals messages between them and write into each message who sends
\* it and a running number.
Numbered(c) == [from |-> c, seq |-> nmsgs + 1]

SigRecvNumbered(c, exc) == SigRecvUpTo(c, Numbered(c), exc, MaxSignals)

NextOrder ==
    \E c \in Conns :
        \/ \E speaker \in SignalSpeakers : SigOpen(c, "R1", speaker)
        \/ \E exc \in SendErrors : SigRecvNumbered(c, exc)
        \/ \E exc \in SendErrors : SigRecvFail(c, exc)
        \/ \E exc \in SendErrors : SigResume(c, exc)
        \/ ClientDrop(c)

SpecOrder == Init /\ [][NextOrder]_vars

\* SpecBacklog: the transcription handlers of one room, whose clients send
\* up to MaxAudio audio messages between them.
NextBacklog ==
    \E c \in Conns :
        \/ TOpen(c)
        \/ \E speaker \in Speakers : TJoin(c, "R1", speaker)
        \/ \E n \in FrameLens, model_text \in {"", "hello"}, exc \in SendErrors :
               TAudioUpTo(c, n, model_text, "Neutral", exc, MaxAudio)
        \/ TRecvFail(c)
        \/ \E exc \in SendErrors : TResume(c, exc)
        \/ ClientDrop(c)

SpecBacklog == Init /\ [][NextBacklog]_vars

\* ------------------------------------------------------------------------
\* Claims about the audio windowing buffer (checked under SpecAudio)
\* ------------------------------------------------------------------------

RECURSIVE Flatten(_)
Flatten(chunks) ==
    IF chunks = <<>> THEN <<>> ELSE Head(chunks) \o Flatten(Tail(chunks))

Backlog(key) == IF key \in DOMAIN buffers THEN buffers[key] ELSE <<>>

\* C1: over any sequence of frames pushed for one key, with N samples pushed
\* in total, the number of windows emitted equals floor(N / W).
C1_WindowCountIsFloor ==
    \A key \in AudioKeys :
        Len(emitted[key]) = Len(pushed[key]) \div WindowLen

\* C2: every emitted window has exactly W samples, and the emitted windows in
\* order followed by the remaining backlog are exactly the pushed samples in
\* order: nothing is dropped, duplicated or reordered (the samples of a key
\* are pairwise distinct, so equality of the sequences says all three).
C2_WindowsPartitionInput ==
    \A key \in AudioKeys :
        /\ \A i \in 1..Len(emitted[key]) : Len(emitted[key][i]) = WindowLen
        /\ Flatten(emitted[key]) \o Backlog(key) = pushed[key]

\* Two windows were emitted for a key and a partial window is still pending.
C2_Witness ==
    \E key \in AudioKeys :
        /\ Len(emitted[key]) >= 2
        /\ Backlog(key) # <<>>
        /\ Len(Backlog(key)) < WindowLen

\* ------------------------------------------------------------------------
\* Claims about the room registry (checked under SpecManager)
\* ------------------------------------------------------------------------

\* A room is registered exactly when one of its connection maps has an entry.
RoomPresentIffConnected ==
    \A room_id \in RoomIds :
        room_id \in DOMAIN rooms <=>
            \/ SignalSockets(rooms, room_id) # <<>>
            \/ TranscribeSockets(rooms, room_id) # <<>>

\* What a step that is a call remove_<slot>_socket(room, role) does: nothing
\* when the room or the role is absent; otherwise the role leaves its map,
\* the other map stays, and the room is deleted exactly when both maps are
\* then empty.
RemovalReapsExactlyWhenEmpty ==
    LET r == op'.room
        k == op'.speaker
        isSignal == op'.name = "remove_signal_socket"
        mine(rs) == IF isSignal THEN SignalSockets(rs, r) ELSE TranscribeSockets(rs, r)
        other(rs) == IF isSignal THEN TranscribeSockets(rs, r) ELSE SignalSockets(rs, r)
        redundant == r \notin DOMAIN rooms \/ ~DictHas(mine(rooms), k)
        emptyAfter == DictKeys(mine(rooms)) = {k} /\ other(rooms) = <<>>
    IN  (op'.name \in {"remove_signal_socket", "remove_transcribe_socket"}) =>
            /\ redundant => rooms' = rooms
            /\ ~redundant /\ emptyAfter => rooms' = WithoutRoom(rooms, r)
            /\ ~redundant /\ ~emptyAfter =>
                   /\ r \in DOMAIN rooms'
                   /\ DictKeys(mine(rooms')) = DictKeys(mine(rooms)) \ {k}
                   /\ other(rooms') = other(rooms)

\* C3: after any sequence of add and remove calls a room is in the registry
\* if and only if one of its two connection maps is non-empty; a removal
\* deletes the room exactly when both maps are empty afterwards and leaves it
\* otherwise, and a removal of an absent role or room changes nothing.
C3_RoomPresentIffNonEmpty ==
    /\ []RoomPresentIffConnected
    /\ [][RemovalReapsExactlyWhenEmpty]_vars

\* The last connection of a room was removed and the room was reaped, after
\* a removal in the other slot had left the room in place.
C3_Witness ==
    /\ op.name = "remove_transcribe_socket"
    /\ op.room \notin DOMAIN rooms

IsPrefix(s, t) == Len(s) <= Len(t) /\ SubSeq(t, 1, Len(s)) = s

\* C7: while a room lives its history only grows at the end: every step
\* leaves the earlier history a prefix of the later one, and a call of
\* add_to_history on a registered room makes get_history return the earlier
\* entries followed by the new one.
C7_HistoryAppendOnly ==
    [][ /\ \A room_id \in DOMAIN rooms \cap DOMAIN rooms' :
               IsPrefix(get_history(rooms, room_id), get_history(rooms', room_id))
        /\ (op'.name = "add_to_history" /\ op'.room \in DOMAIN rooms) =>
               get_history(rooms', op'.room) =
                   Append(get_history(rooms, op'.room),
                          HistoryEntry(op'.speaker, op'.text, op'.sentiment))
      ]_vars

\* The doctor's "hello" and then the patient's "hi" were appended.
C7_Witness ==
    /\ op.name = "add_to_history"
    /\ get_history(rooms, "R1") =
           <<HistoryEntry("Doctor", "hello", NoneVal),
             HistoryEntry("Patient", "hi", "Neutral")>>

\* ------------------------------------------------------------------------
\* Claims about relay_signal (checked under SpecSignal)
\* ------------------------------------------------------------------------

\* The items of a dict, and the connections whose received payloads a step
\* has extended.
Items(d) == {d[i] : i \in 1..Len(d)}
Reached == {x \in Conns : Len(received'[x]) > Len(received[x])}

\* The recipients of a relay of connection c: the items of its room's
\* signaling map under another role.
OtherRoleItems(c) ==
    {e \in Items(SignalSockets(rooms, roomId[c])) : e.k # speakerId[c]}

\* Handler c runs relay_signal from its start (begins) or from a suspension
\* (resumes); the call is over after the step when c is not left inside a
\* send.
RelayBegins(c) == \E body \in SignalBodies, exc \in SendErrors : SigRecv(c, body, exc)
RelayResumes(c) == \E exc \in SendErrors : SigResume(c, exc)
RelayOver(c) == pc'[c] # "s_send"

\* Every delivery of a step of the relay goes to a connection registered in
\* the sender's room under another role, and is the sender's payload.
RelayTargets(c, data) ==
    \A x \in Reached :
        /\ \E e \in OtherRoleItems(c) : e.v = x
        /\ x # c
        /\ received'[x] = Append(received[x], data)

\* When the call is over every other role's connection that was registered
\* all through the call, and whose client is there, has been sent to once.
RelayComplete(c, began) ==
    \A e \in OtherRoleItems(c) :
        (alive[e.v] /\ e.v \in began) =>
            Cardinality({j \in 1..Len(log[c]) : log[c][j].v = e.v}) = 1

\* C4: relay_signal(room, senderRole, payload) delivers payload, unchanged,
\* to every signaling connection registered in that room under a role other
\* than senderRole and never to the connection registered under senderRole;
\* when the room is absent or holds no other signaling connection it
\* delivers nothing and raises no error.
C4_RelayReachesEveryOtherRole ==
    [][ \A c \in Conns :
          /\ \A body \in SignalBodies, exc \in SendErrors :
                 SigRecv(c, body, exc) =>
                     /\ RelayTargets(c, [type |-> "signal", text |-> body])
                     /\ OtherRoleItems(c) = {} =>
                            pc'[c] = "s_recv" /\ received' = received
                     /\ RelayOver(c) => RelayComplete(c, Conns)
          /\ RelayResumes(c) =>
                 /\ RelayTargets(c, payload[c])
                 /\ RelayOver(c) => RelayComplete(c, start[c])
      ]_vars

\* ------------------------------------------------------------------------
\* Claims about broadcast_transcribe and the handlers (checked under Spec)
\* ------------------------------------------------------------------------

\* The recipients of a broadcast of connection c: the items of its room's
\* transcription map.
Recipients(c) == Items(TranscribeSockets(rooms, roomId[c]))

\* The audio message of n samples completes a window for connection c.
EmitsWindow(c, n) ==
    ~process_audio_chunk(buffers, roomId[c], speakerId[c], AudioFrame(c, n)).isNone

\* Handler c takes an audio message that makes it broadcast a transcript
\* event: a window is emitted and its text is not empty.
BroadcastBegins(c) ==
    \E n \in FrameLens, model_text \in Texts \ {""}, label \in Labels, exc \in SendErrors :
        TAudio(c, n, model_text, label, exc) /\ EmitsWindow(c, n)
BroadcastResumes(c) == \E exc \in SendErrors : TResume(c, exc)
\* After the step c is no longer inside the broadcast it was in before.
BroadcastOver(c) == pc'[c] # "t_send" \/ phase'[c] # phase[c]

\* Every delivery of a step of a broadcast goes to a connection registered
\* in the transcription map of the sender's room, and is the event of the
\* broadcast.
BroadcastTargets(c) ==
    \A x \in Reached :
        /\ \E e \in Recipients(c) : e.v = x
        /\ payload'[c].type \in {"transcript", "question"}
        /\ received'[x] = Append(received[x], payload'[c])

\* When the call is over every connection that was registered all through
\* the call, and whose client is there, has been sent to exactly once.
BroadcastComplete(c, began) ==
    \A e \in Recipients(c) :
        (alive[e.v] /\ e.v \in began) =>
            Cardinality({j \in 1..Len(log[c]) : log[c][j].v = e.v}) = 1

\* No call has sent twice to one connection.
NoDoubleDelivery ==
    \A c \in Conns : \A i, j \in 1..Len(log[c]) : log[c][i].v = log[c][j].v => i = j

\* C5: broadcast_transcribe(room, event) delivers event to every connection
\* registered in the room's transcription slot exactly once per call, the
\* connection whose handler issued the broadcast included, and to no
\* connection of the signaling slot or of another room.
C5_BroadcastReachesEverySlotMember ==
    /\ []NoDoubleDelivery
    /\ [][ \A c \in Conns :
              /\ BroadcastBegins(c) =>
                     /\ BroadcastTargets(c)
                     /\ pc'[c] # "t_send" => BroadcastComplete(c, Conns)
              /\ BroadcastResumes(c) =>
                     /\ BroadcastTargets(c)
                     /\ BroadcastOver(c) => BroadcastComplete(c, start[c])
          ]_vars

\* The item an iteration i over dict d sends to next when the items of role
\* skip are passed over, if there is one.
NextRecipient(d, i, skip) ==
    LET n1 == IterNext(d, i)
        n == IF n1.kind = "item" /\ n1.item.k = skip THEN IterNext(d, n1.it) ELSE n1
    IN  [found |-> n.kind = "item", item |-> n.item]

\* What the claim says of a step in which handler c sends to the recipient
\* r of the map d (d2 after the step), r is another connection and its
\* client is gone: the call is not given up, r's entry leaves the map, and
\* the sender's own entry stays.
FailureIsolated(c, d, d2, r) ==
    (r.found /\ r.item.v # c /\ ~alive[r.item.v]) =>
        /\ pc'[c] \notin Ended
        /\ r.item \notin Items(d2)
        /\ \A e \in Items(d) : e.v = c => e \in Items(d2)

\* C6: when the delivery to one recipient fails during broadcast_transcribe
\* or relay_signal, the remaining recipients of that call still receive the
\* payload, and the failing recipient's connection, not the sender's, is
\* removed from the room's connection map.
C6_FailingRecipientIsRemoved ==
    [][ \A c \in Conns :
          LET sig == SignalSockets(rooms, roomId[c])
              sig2 == SignalSockets(rooms', roomId[c])
              tr == TranscribeSockets(rooms, roomId[c])
              tr2 == TranscribeSockets(rooms', roomId[c])
          IN  /\ RelayBegins(c) =>
                     FailureIsolated(c, sig, sig2,
                                     NextRecipient(sig, IterStart(sig), speakerId[c]))
              /\ RelayResumes(c) =>
                     FailureIsolated(c, sig, sig2, NextRecipient(sig, it[c], speakerId[c]))
              /\ BroadcastBegins(c) =>
                     FailureIsolated(c, tr, tr2, NextRecipient(tr, IterStart(tr), NoneVal))
              /\ BroadcastResumes(c) =>
                     FailureIsolated(c, tr, tr2, NextRecipient(tr, it[c], NoneVal))
      ]_vars

\* No connection has been sent a question event before a transcript event.
TranscriptBeforeQuestion ==
    \A x \in Conns : \A i, j \in 1..Len(received[x]) :
        (received[x][i].type = "question" /\ received[x][j].type = "transcript") => j < i

\* Connection c is registered in its room's transcription map and its client
\* is there, so that a broadcast of its handler has a recipient to reach.
Connected(c) == alive[c] /\ \E e \in Recipients(c) : e.v = c

\* An audio message of the connected patient c: when it completes a window
\* whose text is not empty, one entry (role, text, sentiment) is appended to
\* the history and the broadcast of the transcript event is under way;
\* otherwise nothing is appended and nothing is sent.
PatientWindowStep(c) ==
    \A n \in FrameLens, model_text \in Texts, label \in Labels, exc \in SendErrors :
        (TAudio(c, n, model_text, label, exc) /\ speakerId[c] = "Patient"
                                             /\ Connected(c)) =>
            IF EmitsWindow(c, n) /\ model_text # ""
            THEN /\ get_history(rooms', roomId[c]) =
                        Append(get_history(rooms, roomId[c]),
                               [speaker |-> "Patient", text |-> model_text,
                                sentiment |-> label])
                 /\ pc'[c] = "t_send" /\ phase'[c] = "transcript"
                 /\ payload'[c] = [type |-> "transcript", speaker |-> "Patient",
                                   text |-> model_text, sentiment |-> label]
            ELSE /\ rooms' = rooms
                 /\ received' = received
                 /\ pc'[c] = "t_recv"

\* The broadcast of the connected patient's transcript event ends: the broadcast of
\* the question event follows when the question engine has questions for
\* the history, and no other event is sent for this window.
PatientQuestionStep(c) ==
    LET questions == generate_question(get_history(rooms, roomId[c]),
                                       get_checklist_step(rooms, roomId[c]))
    IN  (/\ BroadcastResumes(c)
         /\ phase[c] = "transcript" /\ payload[c].speaker = "Patient"
         /\ Connected(c)
         /\ BroadcastOver(c)) =>
            IF questions # <<>>
            THEN /\ pc'[c] = "t_send" /\ phase'[c] = "question"
                 /\ payload'[c] = [type |-> "question", questions |-> questions]
            ELSE pc'[c] = "t_recv" /\ received' = received

\* C8: for each window emitted for an Active Patient connection whose text
\* is not empty the handler appends exactly one entry (role, text,
\* sentiment) to the room history, then broadcasts the transcript event,
\* then, if the question engine returns a question, broadcasts the question
\* event; every recipient sees the transcript event before the question
\* event; a window with empty text gives no history entry and no event.
C8_PatientWindowPipeline ==
    /\ []TranscriptBeforeQuestion
    /\ [][\A c \in Conns : PatientWindowStep(c) /\ PatientQuestionStep(c)]_vars

\* The positions of a handler of ws_transcribe that has joined.
Active == {"t_recv", "t_send"}

\* Connection c is in the transcription map of some room.
Registered(c) ==
    \E r \in DOMAIN rooms : c \in DictValues(rooms[r].transcribe_sockets)

\* C9: a transcription connection enters Active only through a first message
\* of type join; when the first message is anything else, or the connection
\* closes before it has joined, the handler ends Closed and has never
\* registered the connection in a room, created a room or removed a
\* connection.
C9_ActiveOnlyThroughJoin ==
    /\ [](\A c \in Conns : pc[c] \in {"t_join", "rejected"} => ~Registered(c))
    /\ [][ \A c \in Conns :
              /\ (pc'[c] \in Active /\ pc[c] \notin Active) =>
                     \E room \in RoomIds, speaker \in Speakers : TJoin(c, room, speaker)
              /\ (TNoJoin(c) \/ TJoinFail(c) \/ \E room \in RoomIds : TJoinNoSpeaker(c, room)) =>
                     pc'[c] = "rejected" /\ rooms' = rooms
          ]_vars

\* A connection was turned away while another one is registered and waits
\* for its next message.
C9_Witness ==
    \E c, c2 \in Conns :
        /\ pc[c] = "rejected"
        /\ pc[c2] = "t_recv" /\ Registered(c2)

\* C10: when an Active transcription connection terminates (graceful close,
\* transport error, error while handling a message) its role's entry leaves
\* the transcription map of its room, the room is reaped if that leaves both
\* maps empty, the handler ends Closed, and the entries of every other role
\* in the room's two maps stay registered.
C10_TerminationRemovesOwnEntry ==
    [][ \A c \in Conns :
          (pc[c] \in Active /\ pc'[c] \notin Active) =>
              LET r == roomId[c]
                  k == speakerId[c]
              IN  /\ pc'[c] = "closed"
                  /\ ~DictHas(TranscribeSockets(rooms', r), k)
                  /\ r \in DOMAIN rooms' <=>
                         \/ SignalSockets(rooms', r) # <<>>
                         \/ TranscribeSockets(rooms', r) # <<>>
                  /\ SignalSockets(rooms', r) = SignalSockets(rooms, r)
                  /\ \A e \in Items(TranscribeSockets(rooms, r)) :
                         e.k # k => e \in Items(TranscribeSockets(rooms', r))
      ]_vars

\* ------------------------------------------------------------------------
\* Claims about the collaborators and the message loop (checked under Spec)
\* ------------------------------------------------------------------------

\* C11: a failing collaborator call (transcription, sentiment or
\* question-rule) is treated as no result for that step (empty text, Neutral
\* sentiment, no questions): the connection that made the call stays Active
\* and registered, nothing is stored or sent for the window, and the handler
\* waits for its next inbound message.
C11_CollaboratorFailureIsNoResult ==
    [][ \A c \in Conns, n \in FrameLens :
          TAudioRaises(c, n) =>
              /\ pc'[c] = "t_recv"
              /\ rooms' = rooms
              /\ received' = received
      ]_vars

\* An update_checklist message of connection c with the value step: the
\* effect claimed for it.
ChecklistStepSet(c, step) ==
    LET r == roomId[c]
    IN  TUpdateChecklist(c, step) =>
            /\ get_checklist_step(rooms', r) = step
            /\ received' = received
            /\ get_history(rooms', r) = get_history(rooms, r)
            /\ SignalSockets(rooms', r) = SignalSockets(rooms, r)
            /\ TranscribeSockets(rooms', r) = TranscribeSockets(rooms, r)
            /\ pc'[c] = "t_recv"

\* A room that enters the registry has the checklist step "Introduction".
NewRoomStartsAtIntroduction ==
    \A r \in DOMAIN rooms' :
        r \notin DOMAIN rooms => get_checklist_step(rooms', r) = "Introduction"

\* C12: an update_checklist message on an Active connection sets the room's
\* checklist step to the supplied value verbatim, so that the next
\* get_checklist_step for that room returns it, sends no outbound event to
\* any connection, and leaves history and both connection maps unchanged; a
\* newly created room has checklist step "Introduction".
C12_UpdateChecklistSetsStep ==
    [][ /\ \A c \in Conns, step \in Steps : ChecklistStepSet(c, step)
        /\ NewRoomStartsAtIntroduction
      ]_vars

\* The sentiment of an utterance of role speaker on which the sentiment model
\* returns label: the model is asked for the patient only.
SentimentOf(speaker, label) == IF speaker = "Patient" THEN label ELSE NoneVal

\* An audio message of connection c that completes a window with a text:
\* the entry appended to the history of its room, the transcript event the
\* broadcast is suspended with, and the event the first recipient has got
\* carry the label the sentiment model returned (patient) or None (any other
\* role).
SentimentStep(c) ==
    \A n \in FrameLens, model_text \in Texts \ {""}, label \in Labels, exc \in SendErrors :
        LET r == roomId[c]
            s == SentimentOf(speakerId[c], label)
            entry == [speaker |-> speakerId[c], text |-> model_text, sentiment |-> s]
            event == [type |-> "transcript", speaker |-> speakerId[c],
                      text |-> model_text, sentiment |-> s]
        IN  (TAudio(c, n, model_text, label, exc) /\ EmitsWindow(c, n)) =>
                /\ (r \in DOMAIN rooms /\ r \in DOMAIN rooms') =>
                       get_history(rooms', r) = Append(get_history(rooms, r), entry)
                /\ pc'[c] = "t_send" => payload'[c] = event
                /\ \A d \in Reached : received'[d] = Append(received[d], event)

\* Every history entry and every transcript event that was delivered has a
\* label for the patient and None for any other role.
SentimentByRole ==
    /\ \A r \in DOMAIN rooms : \A e \in Items(rooms[r].history) :
           IF e.speaker = "Patient" THEN e.sentiment \in Labels
           ELSE e.sentiment = NoneVal
    /\ \A c \in Conns : \A e \in Items(received[c]) :
           e.type = "transcript" =>
               IF e.speaker = "Patient" THEN e.sentiment \in Labels
               ELSE e.sentiment = NoneVal

\* C13: the sentiment collaborator is invoked only for utterances of role
\* "Patient"; for any other role the sentiment is absent (null).  The
\* sentiment stored in the history entry and the sentiment carried by the
\* transcript event for the same utterance are both exactly what the
\* collaborator returned.
C13_SentimentOnlyForPatient ==
    /\ []SentimentByRole
    /\ [][\A c \in Conns : SentimentStep(c)]_vars

\* A patient's utterance that the sentiment model found negative is in the
\* history of its room and has reached a connection as a transcript event.
C13_Witness ==
    \E r \in DOMAIN rooms, c \in Conns :
        \E e \in Items(rooms[r].history), ev \in Items(received[c]) :
            /\ e.speaker = "Patient" /\ e.sentiment = "Negative"
            /\ ev.type = "transcript" /\ ev.speaker = "Patient"
            /\ ev.text = e.text /\ ev.sentiment = "Negative"

\* The handler of connection c waits for a message as a registered member of
\* its room.
WaitsRegistered(c) ==
    /\ pc[c] = "t_recv"
    /\ \E e \in Recipients(c) : e.v = c

\* C14: a well-formed inbound message whose type is neither audio nor
\* update_checklist, received on an Active connection, is ignored: nothing is
\* sent to any connection, the room's history, checklist step, connection
\* maps and audio backlog are unchanged, and the connection stays Active.
C14_UnknownTypeIsIgnored ==
    [][ \A c \in Conns :
          TOther(c) =>
              /\ received' = received
              /\ rooms' = rooms
              /\ buffers' = buffers
              /\ pc'[c] = "t_recv"
              /\ roomId'[c] = roomId[c] /\ speakerId'[c] = speakerId[c]
      ]_vars

\* A registered connection has sent one message, which was neither audio (no
\* backlog exists) nor update_checklist (the step is the initial one), and
\* waits for the next one; nothing has been delivered to anyone.
C14_Witness ==
    \E c \in Conns :
        /\ WaitsRegistered(c)
        /\ nmsgs = 1
        /\ buffers = <<>>
        /\ get_checklist_step(rooms, roomId[c]) = "Introduction"
        /\ \A d \in Conns : received[d] = <<>>

\* ------------------------------------------------------------------------
\* Claims about the state of a room (checked under SpecManager)
\* ------------------------------------------------------------------------

\* The call removes the entry of speaker_id from one map of room_id.
Removes(room_id, speaker_id) ==
    \/ CallRemoveSignalSocket(room_id, speaker_id)
    \/ CallRemoveTranscribeSocket(room_id, speaker_id)

\* The entries of room_id that the call leaves in its two maps.
LeftAfterRemoval(room_id, speaker_id) ==
    IF CallRemoveSignalSocket(room_id, speaker_id)
    THEN {e \in Items(SignalSockets(rooms, room_id)) : e.k # speaker_id}
             \cup Items(TranscribeSockets(rooms, room_id))
    ELSE Items(SignalSockets(rooms, room_id))
             \cup {e \in Items(TranscribeSockets(rooms, room_id)) : e.k # speaker_id}

\* A removal that leaves a connection in the room leaves the room with its
\* history and step; one that leaves none discards the room.
RemovalKeepsRoomState ==
    \A room_id \in MgrRooms, speaker_id \in MgrSpeakers :
        (Removes(room_id, speaker_id) /\ room_id \in DOMAIN rooms) =>
            IF LeftAfterRemoval(room_id, speaker_id) # {}
            THEN /\ room_id \in DOMAIN rooms'
                 /\ rooms'[room_id].history = rooms[room_id].history
                 /\ rooms'[room_id].checklist_step = rooms[room_id].checklist_step
            ELSE room_id \notin DOMAIN rooms'

\* History and step of a room are discarded by nothing but a removal.
DiscardedOnlyByRemoval ==
    \A room_id \in DOMAIN rooms :
        room_id \notin DOMAIN rooms' =>
            \E speaker_id \in MgrSpeakers : Removes(room_id, speaker_id)

\* A room that enters the registry has no history and the initial step,
\* whatever a room of that id held before.
RecreatedRoomIsFresh ==
    \A room_id \in DOMAIN rooms' :
        room_id \notin DOMAIN rooms =>
            /\ rooms'[room_id].history = <<>>
            /\ rooms'[room_id].checklist_step = "Introduction"

\* C15: removing a connection from a room that still has at least one other
\* connection in either slot leaves the room's history and checklist step
\* unchanged; history and checklist are discarded only when the removal
\* empties both connection maps, after which a room re-created under the
\* same id starts with empty history and step "Introduction".
C15_StateSurvivesPartialDisconnect ==
    [][RemovalKeepsRoomState /\ DiscardedOnlyByRemoval /\ RecreatedRoomIsFresh]_vars

\* A connection has just been removed from a room that keeps another one,
\* and the room still has its history and the step it was advanced to.
C15_Witness ==
    /\ op.name \in {"remove_signal_socket", "remove_transcribe_socket"}
    /\ op.room \in DOMAIN rooms
    /\ rooms[op.room].history # <<>>
    /\ rooms[op.room].checklist_step = "Medical History"
    /\ ~DictHas(SignalSockets(rooms, op.room), op.speaker)
    /\ ~DictHas(TranscribeSockets(rooms, op.room), op.speaker)

\* C16: get_history returns a snapshot: a sequence obtained from get_history
\* at one point is not changed by add_to_history calls made afterwards on
\* the same room.
C16_GetHistoryIsSnapshot ==
    held.kind # "none" => Contents(held, rooms) = held.seen

\* ------------------------------------------------------------------------
\* Claims about the order of relayed payloads (checked under SpecOrder)
\* ------------------------------------------------------------------------

\* How often connection x has been sent the payload data, after the step.
TimesReceived(x, data) ==
    Cardinality({j \in 1..Len(received'[x]) : received'[x][j] = data})

\* The relay of data by handler c is over: every connection that was
\* registered in the sender's room under another role when the relay began,
\* still is, and whose client is there, has got data exactly once.
RelayedOnce(c, data, began) ==
    \A e \in OtherRoleItems(c) :
        (/\ e.v \in began /\ alive[e.v]
         /\ e \in Items(SignalSockets(rooms', roomId[c]))) =>
            TimesReceived(e.v, data) = 1

\* What a connection has received from one sender is in the order in which
\* that sender sent it, with no payload twice.
RelayedInOrder ==
    \A x \in Conns :
        \A i, j \in 1..Len(received[x]) :
            (i < j /\ received[x][i].text.from = received[x][j].text.from) =>
                received[x][i].text.seq < received[x][j].text.seq

\* C17: for one signaling sender, every non-sender recipient that stays
\* registered receives each relayed payload exactly once and in the order
\* the sender sent them, under any interleaving with other connections'
\* handlers.
C17_RelayedOnceInOrder ==
    /\ []RelayedInOrder
    /\ [][ \A c \in Conns :
             /\ \A exc \in SendErrors :
                    (SigRecvNumbered(c, exc) /\ RelayOver(c)) =>
                        RelayedOnce(c, [type |-> "signal", text |-> Numbered(c)], Conns)
             /\ (RelayResumes(c) /\ RelayOver(c)) =>
                    RelayedOnce(c, payload[c], start[c])
         ]_vars

\* ------------------------------------------------------------------------
\* Claims about the backlog of a closed connection (checked under
\* SpecBacklog)
\* ------------------------------------------------------------------------

\* The window that the audio message of n samples of connection c completes.
WindowOf(c, n) ==
    process_audio_chunk(buffers, roomId[c], speakerId[c], AudioFrame(c, n)).chunk

\* The connection a sample of a window came from (AudioFrame writes it into
\* the sample).
Origin(sample) == sample.num

\* C18: audio that was accumulated for a (room, speaker) key but not yet
\* windowed when its connection closed is abandoned: those samples never
\* appear in any window that is later emitted and transcribed, also when a
\* later connection joins with the same room and speaker.
C18_ClosedBacklogIsAbandoned ==
    [][ \A c \in Conns, n \in FrameLens, model_text \in {"", "hello"}, exc \in SendErrors :
          (TAudioUpTo(c, n, model_text, "Neutral", exc, MaxAudio) /\ EmitsWindow(c, n)) =>
              \A i \in 1..Len(WindowOf(c, n)) :
                  pc[Origin(WindowOf(c, n)[i])] \notin Ended
      ]_vars

\* ------------------------------------------------------------------------
\* Claims about the interleaving of the handlers (checked under Spec)
\* ------------------------------------------------------------------------

\* The positions of a handler suspended on a send inside an iteration of
\* relay_signal or broadcast_transcribe.
Sending == {"s_send", "t_send"}

\* The map that the suspended iteration of handler c runs over, and its
\* room, are the same after the step as before.
IterationUndisturbed(c) ==
    /\ roomId[c] \in DOMAIN rooms <=> roomId[c] \in DOMAIN rooms'
    /\ Slot(rooms', c) = Slot(rooms, c)

\* C19: a relay_signal or broadcast_transcribe iteration over a room's
\* connection map is mutually exclusive with add/remove on that same map: in
\* no interleaving of connection handlers is the map (or the room) mutated
\* between the start and the end of an iteration that suspends on each send.
C19_IterationExcludesMutation ==
    [][ \A c \in Conns :
          (pc[c] \in Sending /\ pc'[c] \in Sending) => IterationUndisturbed(c)
      ]_vars

\* Handler d can take its next step: read the message its client has sent,
\* or go on with the relay or broadcast it is suspended in.
CanProceed(d) ==
    /\ (pc[d] = "t_recv" /\ alive[d] /\ nmsgs < MaxInbound) => ENABLED TOther(d)
    /\ (pc[d] = "s_recv" /\ alive[d] /\ nmsgs < MaxInbound) =>
           ENABLED (\E body \in SignalBodies, exc \in SendErrors : SigRecv(d, body, exc))
    /\ pc[d] = "s_send" => ENABLED (\E exc \in SendErrors : SigResume(d, exc))
    /\ pc[d] = "t_send" => ENABLED (\E exc \in SendErrors : TResume(d, exc))

\* C20: a collaborator call that does not return stalls only the connection
\* that invoked it: while one handler is inside transcribe_chunk,
\* sentiment_analyzer.analyze or generate_question, the handlers of the
\* other connections (in the same room and in other rooms) can still
\* receive messages, relay and broadcast.
C20_StallIsLocal ==
    \A c \in Conns :
        pc[c] = "t_call" => \A d \in Conns \ {c} : CanProceed(d)

\* ------------------------------------------------------------------------
\* Claims about the registration of connections (checked under Spec)
\* ------------------------------------------------------------------------

\* The room ids the clients name on either endpoint.
AllRooms == SignalRooms \cup RoomIds

\* The handles registered in either map of room r.
Handles(rs, r) ==
    DictValues(SignalSockets(rs, r)) \cup DictValues(TranscribeSockets(rs, r))

\* Handler c registers its connection in room r.
Adds(c, r) ==
    \/ r \in SignalRooms /\ \E speaker \in Speakers : SigOpen(c, r, speaker)
    \/ r \in RoomIds /\ \E speaker \in Speakers : TJoin(c, r, speaker)

\* A registration creates the room with default state when it is absent and
\* never otherwise: a room that is there keeps its history and step, and no
\* other room is touched.
AddCreatesOnce(c, r) ==
    Adds(c, r) =>
        /\ r \in DOMAIN rooms'
        /\ c \in Handles(rooms', r)
        /\ IF r \in DOMAIN rooms
           THEN /\ rooms'[r].history = rooms[r].history
                /\ rooms'[r].checklist_step = rooms[r].checklist_step
           ELSE /\ rooms'[r].history = <<>>
                /\ rooms'[r].checklist_step = "Introduction"
                /\ Handles(rooms', r) = {c}
        /\ \A r2 \in (DOMAIN rooms \cup DOMAIN rooms') \ {r} :
               r2 \in DOMAIN rooms /\ r2 \in DOMAIN rooms' /\ rooms'[r2] = rooms[r2]

\* Every connection registered in the room before stays registered.
AddKeepsAll(c, r) ==
    Adds(c, r) => Handles(rooms, r) \subseteq Handles(rooms', r)

\* Every entry of the room stays but the one under the very role and slot
\* that c registers for.
AddKeepsOtherKeys(c, r) ==
    Adds(c, r) =>
        /\ \A e \in Items(SignalSockets(rooms, r)) :
               e \in Items(SignalSockets(rooms', r)) \/ SigOpen(c, r, e.k)
        /\ \A e \in Items(TranscribeSockets(rooms, r)) :
               e \in Items(TranscribeSockets(rooms', r)) \/ TJoin(c, r, e.k)

\* C21: room creation suffers no lost update: when two connection handlers
\* concurrently add a connection for the same previously absent room id,
\* exactly one room is created with default state and both connections end
\* up registered in it, in every interleaving.
C21_NoLostUpdateOnCreation ==
    [][\A c \in Conns, r \in AllRooms : AddCreatesOnce(c, r) /\ AddKeepsAll(c, r)]_vars

\* C21 as it holds: when two handlers add a connection for the same
\* previously absent room id, exactly one room is created with default
\* state, and both connections end up registered in it unless they register
\* for the same role in the same slot, where the later handle replaces the
\* earlier one.
C21_NoLostUpdateUnlessSameKey ==
    [][\A c \in Conns, r \in AllRooms : AddCreatesOnce(c, r) /\ AddKeepsOtherKeys(c, r)]_vars

\* Two connections have registered in a room that was absent before, one in
\* each slot, and the room has its default state.
C21_Witness ==
    \E r \in DOMAIN rooms, c, c2 \in Conns :
        /\ c # c2
        /\ c \in DictValues(SignalSockets(rooms, r))
        /\ c2 \in DictValues(TranscribeSockets(rooms, r))
        /\ pc[c] = "s_recv" /\ pc[c2] = "t_recv"
        /\ rooms[r].history = <<>> /\ rooms[r].checklist_step = "Introduction"
        /\ nmsgs = 0

\* Every entry that holds the handle of a connection other than c is in the
\* same map of the same room after the step.
OthersStayRegistered(c) ==
    \A r \in DOMAIN rooms :
        /\ \A e \in Items(SignalSockets(rooms, r)) :
               e.v # c => e \in Items(SignalSockets(rooms', r))
        /\ \A e \in Items(TranscribeSockets(rooms, r)) :
               e.v # c => e \in Items(TranscribeSockets(rooms', r))

\* C22: a disconnect removes only the handle that the disconnecting
\* connection itself registered.  When a connection was displaced by a later
\* join for the same (room, role, slot), the displaced connection's
\* disconnect leaves the later connection's handle registered, and so never
\* reaps a room in which the later connection is still live.
C22_DisconnectRemovesOwnHandleOnly ==
    [][ \A c \in Conns :
          (pc[c] \notin Ended /\ pc'[c] \in Ended) => OthersStayRegistered(c)
      ]_vars

\* ------------------------------------------------------------------------
\* Claims about the end of the signaling handlers (checked under SpecSignal)
\* ------------------------------------------------------------------------

\* Connection c is in the signaling map of some room.
SignalRegistered(rs, c) ==
    \E r \in DOMAIN rs : c \in DictValues(rs[r].signal_sockets)

\* No handler is running: every connection that was accepted has ended.
AllTerminated == \A c \in Conns : pc[c] \in Ended \cup {"new"}

\* C23: no connection leak on the signaling channel.  Whenever a signaling
\* handler terminates for any reason, including a failure raised while
\* relaying to another participant, the handle it registered is no longer in
\* the room's signaling map, so the room is eventually reaped once all its
\* handlers have terminated.
C23_NoSignalingLeak ==
    /\ [][ \A c \in Conns :
             (pc[c] \in {"s_recv", "s_send"} /\ pc'[c] \in Ended) =>
                 ~SignalRegistered(rooms', c)
         ]_vars
    /\ [](AllTerminated => rooms = <<>>)

====
